---- MODULE Spec2Model ----
(***************************************************************************)
(* A model of the weather-agent service: the HTTP handlers of app.py, the  *)
(* per-user agent registry (agent_cache), the conversation memory of       *)
(* memory_handler.py over its MongoDB store, and the prompt cache of       *)
(* prompt_cache.py.                                                        *)
(*                                                                         *)
(* Every handler of app.py is an `async def` coroutine whose body holds no *)
(* await expression (agent.invoke, get_agent and the store calls are       *)
(* synchronous), so the event loop runs each handler body to completion    *)
(* before it starts another: one handler is one atomic step.  Requests     *)
(* that overlap in time are requests that wait in the server while another *)
(* handler runs; the variable reqs holds them.                             *)
(***************************************************************************)
EXTENDS Integers, Sequences, FiniteSets, TLC

VARIABLES
    users,        \* user_manager.users: the registered usernames
    store,        \* the MongoDB chat collection: session id -> messages, in insertion order
    agent_cache,  \* app.agent_cache: user id -> the cached (agent, memory) pair
    created,      \* how many (agent, memory) pairs create_weather_agent has built
    response,     \* the response of the handler that ran last
    reqs,         \* requests accepted by the server: waiting, or answered and not yet collected
    prompts,      \* PromptCache._prompts: prompt id -> cached template
    ret,          \* the value returned by the last PromptCache call
    weather       \* the last call of the OpenWeather client or of a weather tool

appVars == <<users, store, agent_cache, created, response>>
promptVars == <<prompts, ret>>
vars == <<users, store, agent_cache, created, response, reqs, prompts, ret, weather>>

(***************************************************************************)
(* Bounds of the model.                                                    *)
(***************************************************************************)
MaxExchanges == 2       \* exchanges one user's store holds under Spec
WindowExchanges == 6    \* exchanges the store holds under SpecWindow (more than K)
RaceExchanges == 2      \* exchanges the store holds under SpecRace
MaxCreated == 3         \* (agent, memory) pairs built in one behaviour
MaxInflight == 2        \* requests the server holds at once under SpecRace
MaxSegs == 4            \* messages of a pulled chat template

(***************************************************************************)
(* Program constants.                                                      *)
(***************************************************************************)
K == 5                  \* create_weather_agent(user_id, k=5)
DefaultLimit == 50      \* get_chat_history(limit=Query(50))

Users == {"alice", "bob"}
Queries == {"", "  ", "hi"}
Answer == "sunny"

\* response["output"]: the text the agent returns for a query
AnswerTo(q) == IF q = "yo" THEN "rainy" ELSE Answer
BriefQueries == {"", "hi"}
Limits == {DefaultLimit, 1}

\* what may go wrong while a handler runs: nothing, create_weather_agent raises,
\* the MongoDB call raises, the model or a tool raises
Fails == {"none", "construct", "mongo", "llm"}
StoreFails == {"none", "construct", "mongo"}

\* str.strip() of the query is empty
IsBlank(q) == q \in {"", "  "}

Min(a, b) == IF a < b THEN a ELSE b

\* seq[-n:] for n > 0
LastN(seq, n) == SubSeq(seq, Len(seq) - Min(Len(seq), n) + 1, Len(seq))

IsPrefix(s, t) == Len(s) <= Len(t) /\ SubSeq(t, 1, Len(s)) = s

HumanMessage(text) == [type |-> "human", content |-> text]
AIMessage(text) == [type |-> "ai", content |-> text]

(***************************************************************************)
(* prompt_cache.py: PromptCache.  A chat template is a sequence of         *)
(* messages.  A message is a string-template message of some class (it has *)
(* .prompt.template; template is the set of {names} the text holds, plus   *)
(* the rendered date once substituted) or a MessagesPlaceholder (it has    *)
(* variable_name and no .prompt).                                          *)
(***************************************************************************)
TodayDate == "Tuesday, November 03, 2026"

StringMessage(cls, names) == [cls |-> cls, template |-> names, variable_name |-> ""]
MessagesPlaceholder(name) ==
    [cls |-> "MessagesPlaceholder", template |-> {}, variable_name |-> name]

\* hasattr(message, 'prompt') and hasattr(message.prompt, 'template')
HasTemplate(m) == m.cls # "MessagesPlaceholder"

\* message.prompt.template.replace("{TODAY_DATE}", today_date), message class kept
SubstDate(m) ==
    IF HasTemplate(m) /\ "TODAY_DATE" \in m.template
    THEN [m EXCEPT !.template = (@ \ {"TODAY_DATE"}) \cup {TodayDate}]
    ELSE m

updated_messages(msgs) == [i \in 1..Len(msgs) |-> SubstDate(msgs[i])]

\* any(... "{name}" in msg.prompt.template for msg in prompt.messages)
HasInTemplate(msgs, name) ==
    \E i \in 1..Len(msgs) : HasTemplate(msgs[i]) /\ name \in msgs[i].template

has_agent_scratchpad(msgs) == HasInTemplate(msgs, "agent_scratchpad")
has_chat_history(msgs) == HasInTemplate(msgs, "chat_history")

\* 'Human' in msg.__class__.__name__ or 'User' in msg.__class__.__name__
IsHumanClass(m) == m.cls = "HumanMessagePromptTemplate"

\* the index at which the repair loop breaks: the first human message, 0 if none
FirstHuman(msgs) ==
    IF \E i \in 1..Len(msgs) : IsHumanClass(msgs[i])
    THEN CHOOSE i \in 1..Len(msgs) :
            IsHumanClass(msgs[i]) /\ \A j \in 1..(i - 1) : ~IsHumanClass(msgs[j])
    ELSE 0

\* list.insert(i, x), i counted from 1
InsertAt(msgs, i, x) == SubSeq(msgs, 1, i - 1) \o <<x>> \o SubSeq(msgs, i, Len(msgs))

\* the repair pass of get_prompt over the messages of the cached prompt
Repaired(msgs) ==
    LET upd == updated_messages(msgs)
        hs == has_agent_scratchpad(msgs)
        hh == has_chat_history(msgs)
        withHistory ==
            IF (~hs \/ ~hh) /\ ~hh /\ FirstHuman(upd) # 0
            THEN InsertAt(upd, FirstHuman(upd), MessagesPlaceholder("chat_history"))
            ELSE upd
    IN IF (~hs \/ ~hh) /\ ~hs
       THEN Append(withHistory, MessagesPlaceholder("agent_scratchpad"))
       ELSE withHistory

\* the input_variables get_prompt gives the new ChatPromptTemplate
RepairedVariables(iv) ==
    LET both == iv \cup {"agent_scratchpad", "chat_history"}
    IN IF "question" \in both /\ "input" \notin both THEN both \cup {"input"} ELSE both

\* the variables a pulled template declares
MessageVariables(m) ==
    IF HasTemplate(m) THEN m.template \ {TodayDate} ELSE {m.variable_name}

VariablesOf(msgs) == UNION {MessageVariables(msgs[i]) : i \in 1..Len(msgs)}

ChatPromptTemplate(msgs, iv) ==
    [type |-> "ChatPromptTemplate", messages |-> msgs, input_variables |-> iv]

\* a missing prompt: None
NoneTemplate == [type |-> "None", messages |-> <<>>, input_variables |-> {}]

\* PromptCache.get_prompt(prompt_id)
get_prompt(id) ==
    LET prompt == IF id \in DOMAIN prompts THEN prompts[id] ELSE NoneTemplate
    IN IF prompt.type = "ChatPromptTemplate" /\ Len(prompt.messages) > 0
       THEN ChatPromptTemplate(Repaired(prompt.messages),
                               RepairedVariables(prompt.input_variables))
       ELSE prompt

\* mutant: the default template without the history placeholder
DefaultPromptNoHistory ==
    ChatPromptTemplate(
        <<StringMessage("SystemMessagePromptTemplate", {TodayDate}),
          StringMessage("HumanMessagePromptTemplate", {"input"}),
          MessagesPlaceholder("agent_scratchpad")>>,
        {"input", "agent_scratchpad"})

\* PromptCache.create_default_weather_prompt(): the date is formatted into the
\* system text before the template is built
create_default_weather_prompt ==
    ChatPromptTemplate(
        <<StringMessage("SystemMessagePromptTemplate", {TodayDate}),
          MessagesPlaceholder("chat_history"),
          StringMessage("HumanMessagePromptTemplate", {"input"}),
          MessagesPlaceholder("agent_scratchpad")>>,
        {"chat_history", "input", "agent_scratchpad"})

\* the prompt create_weather_agent builds the agent with
AgentPrompt ==
    IF get_prompt("weather_agent") = NoneTemplate
    THEN create_default_weather_prompt
    ELSE get_prompt("weather_agent")

(***************************************************************************)
(* memory_handler.py: MongoDBConversationMemory.  A memory is bound to the *)
(* store partition of its user_id; k is kept on the instance.              *)
(***************************************************************************)
NoEntry == [id |-> 0, user_id |-> "", k |-> 0, prompt |-> NoneTemplate]

\* mutant: the agent is built with the default template whatever the cache holds
NewPairDefaultPrompt(u) ==
    [id |-> created + 1, user_id |-> u, k |-> K, prompt |-> create_default_weather_prompt]

\* mutant: every memory is bound to one shared session
NewPairSharedSession(u) ==
    [id |-> created + 1, user_id |-> CHOOSE v \in Users : TRUE, k |-> K,
     prompt |-> AgentPrompt]

\* create_weather_agent(user_id): a new (agent, memory) pair, the agent built
\* with the prompt fetched from the cache, the memory bound to user_id
NewPair(u) == [id |-> created + 1, user_id |-> u, k |-> K, prompt |-> AgentPrompt]

\* mutant: the memory keeps its messages in the process; a memory that has just
\* been built starts empty
MemoryMessagesInProcess(mem) ==
    IF agent_cache[mem.user_id] # NoEntry THEN store[mem.user_id] ELSE <<>>

\* memory.get_chat_history(): self.message_history.messages
MemoryMessages(mem) == store[mem.user_id]

\* mutant: the assistant message is written before the human message
StoreAfterExchangeSwapped(mem, q, a) ==
    [store EXCEPT ![mem.user_id] = Append(Append(@, AIMessage(a)), HumanMessage(q))]

\* mutant: the store is cut to the window when an exchange is written
StoreAfterExchangeTrimmed(mem, q, a) ==
    [store EXCEPT ![mem.user_id] =
        LastN(Append(Append(@, HumanMessage(q)), AIMessage(a)), 2 * mem.k)]

\* mutant: the human message is written ahead of the message stored last
StoreAfterExchangeInterleaved(mem, q, a) ==
    [store EXCEPT ![mem.user_id] =
        IF Len(@) = 0
        THEN <<HumanMessage(q), AIMessage(a)>>
        ELSE SubSeq(@, 1, Len(@) - 1) \o <<HumanMessage(q), @[Len(@)], AIMessage(a)>>]

\* message_history.add_messages([human, ai]) at the end of a successful invoke
StoreAfterExchange(mem, q, a) ==
    [store EXCEPT ![mem.user_id] = Append(Append(@, HumanMessage(q)), AIMessage(a))]

\* mutant: clear_history deletes the oldest exchange only
StoreAfterClearOldest(mem) ==
    [store EXCEPT ![mem.user_id] = SubSeq(@, 3, Len(@))]

\* mutant: clear_history deletes nothing
StoreAfterClearKept(mem) == store

\* memory.clear_history(): self.message_history.clear()
StoreAfterClear(mem) == [store EXCEPT ![mem.user_id] = <<>>]

(***************************************************************************)
(* app.py: get_agent.                                                      *)
(***************************************************************************)
\* mutant: the membership test never finds the entry
InCacheNever(u) == FALSE

\* `user_id in agent_cache`
InCache(u) == agent_cache[u] # NoEntry

\* get_agent raises: create_weather_agent is called and fails
GetAgentRaises(u, fail) == ~InCache(u) /\ fail = "construct"

\* mutant: the entry is stored although create_weather_agent raised
CacheAfterFailedGetPartial(u) == [agent_cache EXCEPT ![u] = NewPair(u)]

\* agent_cache after a get_agent(u) that raised: create_weather_agent raises
\* before `agent_cache[user_id] = (agent, memory)` runs
CacheAfterFailedGet(u) == agent_cache

\* mutant: get_agent builds a pair on every call
CacheAfterGetRebuilt(u) == [agent_cache EXCEPT ![u] = NewPair(u)]

\* agent_cache after a get_agent(u) that returned
CacheAfterGet(u) ==
    IF InCache(u) THEN agent_cache ELSE [agent_cache EXCEPT ![u] = NewPair(u)]

CreatedAfterGet(u) == IF InCache(u) THEN created ELSE created + 1

\* mutant: the entry is not deleted
CacheAfterEvictKept(u) ==
    IF InCache(u) THEN agent_cache ELSE [agent_cache EXCEPT ![u] = NewPair(u)]

\* `if user in agent_cache: del agent_cache[user]`, after get_agent(u)
CacheAfterEvict(u) == [CacheAfterGet(u) EXCEPT ![u] = NoEntry]

\* a handler may build a pair only while the model's supply of ids lasts
CanCreate(u) == InCache(u) \/ created < MaxCreated

\* mutant: the human message is written although invoke raised
StoreAfterFailureHuman(mem, q) ==
    [store EXCEPT ![mem.user_id] = Append(@, HumanMessage(q))]

\* agent.invoke raised: the runnable writes the exchange only when the wrapped
\* agent has returned, so nothing is written
StoreAfterFailure(mem, q) == store

Reply(op, u, status) ==
    [op |-> op, user |-> u, status |-> status, query |-> "", limit |-> 0,
     body |-> <<>>, context |-> <<>>, mem |-> 0, swallowed |-> FALSE,
     raised |-> ""]

(***************************************************************************)
(* app.py: the handlers.  fail is what goes wrong while the handler runs:  *)
(* "construct" (create_weather_agent raises), "mongo" (the MongoDB call    *)
(* raises), "llm" (the model or a tool raises), or "none".                 *)
(***************************************************************************)

\* POST /signup
create_user(u) ==
    IF u \in users
    THEN /\ response' = Reply("signup", u, 400)
         /\ UNCHANGED <<users, store, agent_cache, created>>
    ELSE /\ users' = users \cup {u}
         /\ response' = Reply("signup", u, 201)
         /\ UNCHANGED <<store, agent_cache, created>>

\* what chat_agent hands to the agent as chat_history: RunnableWithMessageHistory
\* reads _get_session_history(session_id).messages
AgentContext(mem) == MemoryMessages(mem)

\* POST /api/chat
chat_agent(u, q, fail) ==
    IF u \notin users
    THEN /\ response' = Reply("chat", u, 401)
         /\ UNCHANGED <<users, store, agent_cache, created>>
    ELSE IF GetAgentRaises(u, fail)
    THEN /\ response' = [Reply("chat", u, 500) EXCEPT !.query = q, !.raised = fail]
         /\ agent_cache' = CacheAfterFailedGet(u)
         /\ UNCHANGED <<users, store, created>>
    ELSE LET mem == CacheAfterGet(u)[u] IN
         /\ CanCreate(u)
         /\ agent_cache' = CacheAfterGet(u)
         /\ created' = CreatedAfterGet(u)
         /\ UNCHANGED users
         /\ IF fail \in {"mongo", "llm"}
            THEN /\ response' = [Reply("chat", u, 500) EXCEPT
                                    !.query = q, !.mem = mem.id, !.raised = fail]
                 /\ store' = StoreAfterFailure(mem, q)
            ELSE /\ store' = StoreAfterExchange(mem, q, AnswerTo(q))
                 /\ response' = [Reply("chat", u, 200) EXCEPT
                                    !.query = q, !.mem = mem.id,
                                    !.body = <<AnswerTo(q)>>,
                                    !.context = AgentContext(mem)]

\* the role the history endpoint gives a stored message
RoleOf(msg) == IF msg.type = "human" THEN "user" ELSE "assistant"

FormatMessages(msgs) ==
    [i \in 1..Len(msgs) |-> [role |-> RoleOf(msgs[i]), content |-> msgs[i].content]]

\* streamlit_app.display_chat_message: the name shown for a message of a role
display_role(role) == IF role = "human" THEN "You" ELSE "Weather Agent"

\* `if limit and limit > 0: messages = messages[-limit:]`
ApplyLimit(msgs, limit) == IF limit > 0 THEN LastN(msgs, limit) ELSE msgs

\* mutant: a failed fetch is answered as an empty history
FailedFetchReplyEmpty(u, limit, mem, fail) ==
    [Reply("history", u, 200) EXCEPT !.limit = limit, !.mem = mem.id, !.raised = fail]

\* memory.get_chat_history() raised: `except Exception` answers HTTP 500
FailedFetchReply(u, limit, mem, fail) ==
    [Reply("history", u, 500) EXCEPT !.limit = limit, !.mem = mem.id, !.raised = fail]

\* GET /chat-history
get_chat_history(u, limit, fail) ==
    IF u \notin users
    THEN /\ response' = Reply("history", u, 401)
         /\ UNCHANGED <<users, store, agent_cache, created>>
    ELSE IF GetAgentRaises(u, fail)
    THEN /\ response' = [Reply("history", u, 500) EXCEPT !.limit = limit, !.raised = fail]
         /\ agent_cache' = CacheAfterFailedGet(u)
         /\ UNCHANGED <<users, store, created>>
    ELSE LET mem == CacheAfterGet(u)[u] IN
         /\ CanCreate(u)
         /\ agent_cache' = CacheAfterGet(u)
         /\ created' = CreatedAfterGet(u)
         /\ UNCHANGED <<users, store>>
         /\ IF fail = "mongo"
            THEN response' = FailedFetchReply(u, limit, mem, fail)
            ELSE response' = [Reply("history", u, 200) EXCEPT
                                 !.limit = limit, !.mem = mem.id,
                                 !.body = ApplyLimit(FormatMessages(MemoryMessages(mem)), limit)]

\* DELETE /chat-history
delete_chat_history(u, fail) ==
    IF u \notin users
    THEN /\ response' = Reply("clear", u, 401)
         /\ UNCHANGED <<users, store, agent_cache, created>>
    ELSE IF GetAgentRaises(u, fail)
    THEN /\ response' = [Reply("clear", u, 500) EXCEPT !.raised = fail]
         /\ agent_cache' = CacheAfterFailedGet(u)
         /\ UNCHANGED <<users, store, created>>
    ELSE LET mem == CacheAfterGet(u)[u] IN
         /\ CanCreate(u)
         /\ created' = CreatedAfterGet(u)
         /\ UNCHANGED users
         /\ IF fail = "mongo"
            THEN /\ agent_cache' = CacheAfterGet(u)
                 /\ UNCHANGED store
                 /\ response' = [Reply("clear", u, 500) EXCEPT !.mem = mem.id, !.raised = fail]
            ELSE /\ store' = StoreAfterClear(mem)
                 /\ agent_cache' = CacheAfterEvict(u)
                 /\ response' = [Reply("clear", u, 200) EXCEPT !.mem = mem.id]

\* mutant: a failed cleanup fails the deletion request
CleanupFailedReplyError(username, id, fail) ==
    [Reply("delete", username, 500) EXCEPT !.mem = id, !.swallowed = FALSE, !.raised = fail]

\* the cleanup of delete_user raised: `except Exception: pass`, then the
\* handler returns UserResponse as after a cleanup that worked
CleanupFailedReply(username, id, fail) ==
    [Reply("delete", username, 200) EXCEPT !.mem = id, !.swallowed = TRUE, !.raised = fail]

\* DELETE /users/{username}
delete_user(cur, username, fail) ==
    IF cur \notin users
    THEN /\ response' = Reply("delete", cur, 401)
         /\ UNCHANGED <<users, store, agent_cache, created>>
    ELSE IF cur # username
    THEN /\ response' = Reply("delete", cur, 403)
         /\ UNCHANGED <<users, store, agent_cache, created>>
    ELSE /\ users' = users \ {username}
         /\ IF GetAgentRaises(username, fail)
            THEN \* except Exception: pass
                 /\ response' = CleanupFailedReply(username, 0, fail)
                 /\ agent_cache' = CacheAfterFailedGet(username)
                 /\ UNCHANGED <<store, created>>
            ELSE LET mem == CacheAfterGet(username)[username] IN
                 /\ CanCreate(username)
                 /\ created' = CreatedAfterGet(username)
                 /\ response' = IF fail = "mongo"
                                 THEN CleanupFailedReply(username, mem.id, fail)
                                 ELSE [Reply("delete", username, 200) EXCEPT !.mem = mem.id]
                 /\ IF fail = "mongo"
                    THEN \* clear_history raised: except Exception: pass
                         /\ agent_cache' = CacheAfterGet(username)
                         /\ UNCHANGED store
                    ELSE /\ store' = StoreAfterClear(mem)
                         /\ agent_cache' = CacheAfterEvict(username)

(***************************************************************************)
(* The service with one client request at a time.                          *)
(***************************************************************************)
\* no weather call made yet
NoCall ==
    [call |-> "", city |-> "", country_code |-> "", state_code |-> "",
     sent |-> <<>>, outcomes |-> <<>>, value |-> [kind |-> "None", items |-> <<>>]]

NoReq ==
    [st |-> "free", op |-> "", user |-> "", query |-> "", raced |-> FALSE,
     mem |-> 0, status |-> 0]
NoRet ==
    [call |-> "", id |-> "", value |-> NoneTemplate, ids |-> {},
     results |-> <<>>, failed |-> {}, pulls |-> 0, all |-> <<>>,
     first |-> <<>>]

WEATHER_PROMPT_IDS == {"weather_agent"}

AppInit ==
    /\ users = {}
    /\ store = [u \in Users |-> <<>>]
    /\ agent_cache = [u \in Users |-> NoEntry]
    /\ created = 0
    /\ response = Reply("", "", 0)
    /\ reqs = [s \in 1..MaxInflight |-> NoReq]
    /\ weather = NoCall

Init ==
    /\ AppInit
    /\ prompts = [p \in WEATHER_PROMPT_IDS |-> NoneTemplate]
    /\ ret = NoRet

Room(u, n) == Len(store[u]) + 2 <= 2 * n

Signup == \E u \in Users :
    create_user(u) /\ UNCHANGED <<reqs, prompts, ret, weather>>

ChatAgent == \E u \in Users, q \in BriefQueries, fail \in Fails :
    Room(u, MaxExchanges) /\ chat_agent(u, q, fail) /\ UNCHANGED <<reqs, prompts, ret, weather>>

GetChatHistory == \E u \in Users, limit \in Limits, fail \in StoreFails :
    get_chat_history(u, limit, fail) /\ UNCHANGED <<reqs, prompts, ret, weather>>

DeleteChatHistory == \E u \in Users, fail \in StoreFails :
    delete_chat_history(u, fail) /\ UNCHANGED <<reqs, prompts, ret, weather>>

DeleteUser == \E cur \in Users, username \in Users, fail \in StoreFails :
    delete_user(cur, username, fail) /\ UNCHANGED <<reqs, prompts, ret, weather>>

Next == Signup \/ ChatAgent \/ GetChatHistory \/ DeleteChatHistory \/ DeleteUser

Spec == Init /\ [][Next]_vars

(***************************************************************************)
(* The service with process restarts.  users and store live in MongoDB and *)
(* outlast the process; agent_cache is the module-level dict of app.py and *)
(* is empty again when the module is loaded.                               *)
(***************************************************************************)
\* `agent_cache = {}` at module load
Restart ==
    /\ \E u \in Users : InCache(u)
    /\ agent_cache' = [u \in Users |-> NoEntry]
    /\ UNCHANGED <<users, store, created, response, reqs, prompts, ret, weather>>

NextRestart ==
    Signup \/ ChatAgent \/ GetChatHistory \/ DeleteChatHistory \/ Restart

SpecRestart == Init /\ [][NextRestart]_vars

\* the messages GET /chat-history returns to u in the current state when
\* nothing fails
HistoryOf(u, limit) ==
    ApplyLimit(FormatMessages(MemoryMessages(CacheAfterGet(u)[u])), limit)

(***************************************************************************)
(* One user with a long conversation: the store grows past 2 * K messages. *)
(***************************************************************************)
WindowSignup ==
    create_user("alice") /\ UNCHANGED <<reqs, prompts, ret, weather>>

WindowChat == \E q \in Queries, fail \in Fails :
    Room("alice", WindowExchanges) /\ chat_agent("alice", q, fail)
    /\ UNCHANGED <<reqs, prompts, ret, weather>>

WindowHistory == \E limit \in Limits, fail \in StoreFails :
    get_chat_history("alice", limit, fail) /\ UNCHANGED <<reqs, prompts, ret, weather>>

NextWindow == WindowSignup \/ WindowChat \/ WindowHistory

SpecWindow == Init /\ [][NextWindow]_vars

(***************************************************************************)
(* Overlapping requests.  The server accepts up to MaxInflight requests;   *)
(* the event loop runs the handler of one waiting request at a time, to    *)
(* completion.  A slot of reqs goes free -> pending -> done -> free.       *)
(* raced marks the requests of one user that waited together while the     *)
(* registry held no entry for that user, with no eviction of that user     *)
(* since.                                                                  *)
(***************************************************************************)
Slots == 1..MaxInflight

\* the user whose requests overlap; the account exists when the server starts
RaceUser == "alice"

InitRace ==
    /\ users = {RaceUser}
    /\ store = [u \in Users |-> <<>>]
    /\ agent_cache = [u \in Users |-> NoEntry]
    /\ created = 0
    /\ response = Reply("", "", 0)
    /\ reqs = [s \in 1..MaxInflight |-> NoReq]
    /\ weather = NoCall
    /\ prompts = [p \in WEATHER_PROMPT_IDS |-> NoneTemplate]
    /\ ret = NoRet

\* the queries of the overlapping requests
RaceQueries == {"hi", "yo"}

Arrive == \E s \in Slots, op \in {"chat", "history", "clear"}, u \in {RaceUser},
             q \in RaceQueries :
    /\ reqs[s].st = "free"
    /\ op # "chat" => q = "hi"
    /\ LET together == /\ ~InCache(u)
                       /\ \E t \in Slots \ {s} : reqs[t].st = "pending" /\ reqs[t].user = u
       IN reqs' = [t \in Slots |->
                     IF t = s
                     THEN [NoReq EXCEPT !.st = "pending", !.op = op, !.user = u,
                                        !.query = IF op = "chat" THEN q ELSE "",
                                        !.raced = together]
                     ELSE IF together /\ reqs[t].st = "pending" /\ reqs[t].user = u
                     THEN [reqs[t] EXCEPT !.raced = TRUE]
                     ELSE reqs[t]]
    /\ UNCHANGED <<users, store, agent_cache, created, response, prompts, ret, weather>>

\* reqs after the handler of slot s has run: its response is kept in the slot;
\* an eviction of the user ends the overlap the user's other requests were in
ReqsAfterServe(s) ==
    LET u == reqs[s].user
        evicted == response'.mem # 0 /\ agent_cache'[u] = NoEntry
    IN [t \in Slots |->
          IF t = s
          THEN [reqs[s] EXCEPT !.st = "done", !.mem = response'.mem,
                               !.status = response'.status]
          ELSE IF evicted /\ reqs[t].user = u
          THEN [reqs[t] EXCEPT !.raced = FALSE]
          ELSE reqs[t]]

Pending(s, op) == reqs[s].st = "pending" /\ reqs[s].op = op

ServeChat == \E s \in Slots, fail \in Fails :
    /\ Pending(s, "chat")
    /\ Room(reqs[s].user, RaceExchanges)
    /\ chat_agent(reqs[s].user, reqs[s].query, fail)
    /\ reqs' = ReqsAfterServe(s)
    /\ UNCHANGED <<prompts, ret, weather>>

ServeHistory == \E s \in Slots, limit \in {DefaultLimit}, fail \in StoreFails :
    /\ Pending(s, "history")
    /\ get_chat_history(reqs[s].user, limit, fail)
    /\ reqs' = ReqsAfterServe(s)
    /\ UNCHANGED <<prompts, ret, weather>>

ServeClear == \E s \in Slots, fail \in StoreFails :
    /\ Pending(s, "clear")
    /\ delete_chat_history(reqs[s].user, fail)
    /\ reqs' = ReqsAfterServe(s)
    /\ UNCHANGED <<prompts, ret, weather>>

Collect == \E s \in Slots :
    /\ reqs[s].st = "done"
    /\ reqs' = [reqs EXCEPT ![s] = NoReq]
    /\ UNCHANGED <<users, store, agent_cache, created, response, prompts, ret, weather>>

NextRace == Arrive \/ ServeChat \/ ServeHistory \/ ServeClear \/ Collect

SpecRace == InitRace /\ [][NextRace]_vars

\* C4: when two requests of one user (queries or history reads) wait together
\* while the registry holds no entry for the user, both are served with the
\* same memory instance, and that instance is the one pair stored for the user.
C4_SingleEntry ==
    \A s \in Slots, t \in Slots :
        (/\ s # t
         /\ reqs[s].st = "done" /\ reqs[t].st = "done"
         /\ reqs[s].raced /\ reqs[t].raced
         /\ reqs[s].user = reqs[t].user
         /\ reqs[s].op \in {"chat", "history"} /\ reqs[t].op \in {"chat", "history"}
         /\ reqs[s].mem # 0 /\ reqs[t].mem # 0)
        => /\ reqs[s].mem = reqs[t].mem
           /\ agent_cache[reqs[s].user].id = reqs[s].mem

C4_Witness ==
    /\ reqs[1].st = "done" /\ reqs[2].st = "done"
    /\ reqs[1].raced /\ reqs[2].raced
    /\ reqs[1].user = reqs[2].user
    /\ reqs[1].op = "chat" /\ reqs[2].op = "history"
    /\ reqs[1].status = 200 /\ reqs[2].status = 200
    /\ reqs[1].mem = reqs[2].mem
    /\ agent_cache[reqs[1].user].id = reqs[1].mem

(***************************************************************************)
(* The prompt cache after startup, holding whatever the hub returned, and  *)
(* the read calls on it.                                                   *)
(***************************************************************************)
SegPool ==
    { StringMessage("SystemMessagePromptTemplate", {}),
      StringMessage("SystemMessagePromptTemplate", {"TODAY_DATE"}),
      StringMessage("SystemMessagePromptTemplate", {"chat_history"}),
      StringMessage("HumanMessagePromptTemplate", {"input"}),
      StringMessage("HumanMessagePromptTemplate", {"question"}),
      StringMessage("AIMessagePromptTemplate", {"agent_scratchpad"}),
      MessagesPlaceholder("chat_history"),
      MessagesPlaceholder("agent_scratchpad") }

\* the chat templates hub.pull may return
PulledChat ==
    { ChatPromptTemplate(msgs, VariablesOf(msgs)) :
        msgs \in UNION {[1..n -> SegPool] : n \in 1..MaxSegs} }

\* a pulled prompt that is no chat template (update_prompt stores it unchecked)
PlainPrompt == [type |-> "PromptTemplate", messages |-> <<>>, input_variables |-> {"input"}]

PromptIdsAsked == WEATHER_PROMPT_IDS \cup {"nonexistent_id"}

InitPrompt ==
    /\ AppInit
    /\ prompts \in [WEATHER_PROMPT_IDS -> PulledChat \cup {NoneTemplate, PlainPrompt}]
    /\ ret = NoRet

GetPrompt == \E id \in PromptIdsAsked :
    /\ ret' = [NoRet EXCEPT !.call = "get_prompt", !.id = id, !.value = get_prompt(id)]
    /\ UNCHANGED <<users, store, agent_cache, created, response, reqs, prompts, weather>>

\* PromptCache.get_prompt_ids()
GetPromptIds ==
    /\ ret' = [NoRet EXCEPT !.call = "get_prompt_ids", !.ids = DOMAIN prompts]
    /\ UNCHANGED <<users, store, agent_cache, created, response, reqs, prompts, weather>>

NextPrompt == GetPrompt \/ GetPromptIds

SpecPrompt == InitPrompt /\ [][NextPrompt]_vars

(***************************************************************************)
(* The life of the prompt cache: startup_event fills it, the handlers and  *)
(* create_weather_agent read it through PromptCache() handles, and         *)
(* update_prompt / update_all_prompts pull again.  hub.pull(id) returns a  *)
(* prompt or raises.                                                       *)
(***************************************************************************)
\* hub.pull raised
PullRaises == [type |-> "raise", messages |-> <<>>, input_variables |-> {}]

\* the prompts the hub serves in this model
HubPool ==
    { ChatPromptTemplate(msgs, VariablesOf(msgs)) : msgs \in
        { <<StringMessage("SystemMessagePromptTemplate", {"TODAY_DATE"}),
            StringMessage("HumanMessagePromptTemplate", {"input"})>>,
          <<StringMessage("SystemMessagePromptTemplate", {"chat_history"}),
            StringMessage("HumanMessagePromptTemplate", {"input"}),
            StringMessage("AIMessagePromptTemplate", {"agent_scratchpad"})>>,
          <<MessagesPlaceholder("chat_history"),
            StringMessage("HumanMessagePromptTemplate", {"input"}),
            MessagesPlaceholder("agent_scratchpad")>> } }
    \cup {PlainPrompt}

HubOutcomes == HubPool \cup {PullRaises}

\* the keys of prompt_configs in initialize_cache
prompt_configs == WEATHER_PROMPT_IDS

\* self._prompts[id] = v
SetEntry(p, id, v) == [i \in DOMAIN p \cup {id} |-> IF i = id THEN v ELSE p[i]]

\* mutant: after a failed pull the entry is not set to None
EntryAfterPullUnset(pulled) ==
    IF pulled # PullRaises /\ pulled.type # "ChatPromptTemplate" THEN NoneTemplate ELSE pulled

\* one pass of the loop of initialize_cache for an id configured as "chat":
\* the entry the pass stores
EntryAfterPull(pulled) ==
    IF pulled = PullRaises
    THEN NoneTemplate
    ELSE IF pulled.type # "ChatPromptTemplate" THEN NoneTemplate ELSE pulled

\* PromptCache.initialize_cache(); pulled[id] is what hub.pull(id) does
initialize_cache(p, pulled) ==
    [id \in (DOMAIN p) \cup prompt_configs |->
        IF id \in prompt_configs THEN EntryAfterPull(pulled[id]) ELSE p[id]]

\* mutant: a cache whose entries are all None counts as empty
IsEmptyCacheOrNull(p) == \A id \in DOMAIN p : p[id] = NoneTemplate

\* `not self._prompts`
IsEmptyCache(p) == DOMAIN p = {}

\* PromptCache(): __new__ returns the one instance, __init__ fills an empty cache
PromptCacheNew(p, pulled) == IF IsEmptyCache(p) THEN initialize_cache(p, pulled) ELSE p

\* mutant: a failed pull stores None, as initialize_cache does
PromptsAfterFailedUpdateNull(p, id) == SetEntry(p, id, NoneTemplate)

\* update_prompt when hub.pull raised: the assignment never ran
PromptsAfterFailedUpdate(p, id) == p

\* PromptCache.update_prompt(prompt_id): the cache afterwards
update_prompt(p, id, pulled) ==
    IF pulled = PullRaises THEN PromptsAfterFailedUpdate(p, id) ELSE SetEntry(p, id, pulled)

\* the role get_all_prompts reports for a message
RoleName(m) ==
    IF ~HasTemplate(m) THEN "unknown"
    ELSE IF m.cls = "SystemMessagePromptTemplate" THEN "System"
    ELSE IF m.cls = "HumanMessagePromptTemplate" THEN "Human"
    ELSE "AI"

\* PromptCache.get_all_prompts()
get_all_prompts(p) ==
    [id \in DOMAIN p |->
        [type |-> p[id].type,
         input_variables |-> p[id].input_variables,
         template |-> [i \in 1..Len(p[id].messages) |-> RoleName(p[id].messages[i])]]]

\* startup_event has run: initialize_cache has stored the configured keys
Started == DOMAIN prompts # {}

InitCache ==
    /\ AppInit
    /\ prompts = [id \in {} |-> NoneTemplate]
    /\ ret = NoRet

\* startup_event: PromptCache(), then initialize_cache() again
Startup == \E first \in [prompt_configs -> HubOutcomes], second \in [prompt_configs -> HubOutcomes] :
    /\ ~Started
    /\ prompts' = initialize_cache(PromptCacheNew(prompts, first), second)
    /\ ret' = [NoRet EXCEPT !.call = "startup",
                            !.ids = DOMAIN prompts',
                            !.failed = {id \in prompt_configs : second[id] = PullRaises},
                            !.pulls = 2 * Cardinality(prompt_configs),
                            !.first = first]
    /\ UNCHANGED <<users, store, agent_cache, created, response, reqs, weather>>

\* PromptCache() in a handler or in create_weather_agent
NewHandle == \E pulled \in [prompt_configs -> HubOutcomes] :
    /\ Started
    /\ prompts' = PromptCacheNew(prompts, pulled)
    /\ ret' = [NoRet EXCEPT !.call = "PromptCache",
                            !.pulls = IF IsEmptyCache(prompts) THEN Cardinality(prompt_configs) ELSE 0]
    /\ UNCHANGED <<users, store, agent_cache, created, response, reqs, weather>>

CacheGetPrompt == Started /\ GetPrompt

CacheGetPromptIds == Started /\ GetPromptIds

GetAllPrompts ==
    /\ Started
    /\ ret' = [NoRet EXCEPT !.call = "get_all_prompts", !.all = get_all_prompts(prompts)]
    /\ UNCHANGED <<users, store, agent_cache, created, response, reqs, prompts, weather>>

UpdatePrompt == \E id \in PromptIdsAsked, pulled \in HubOutcomes :
    /\ Started
    /\ prompts' = update_prompt(prompts, id, pulled)
    /\ ret' = [NoRet EXCEPT !.call = "update_prompt", !.id = id,
                            !.results = [i \in {id} |-> pulled # PullRaises],
                            !.failed = IF pulled = PullRaises THEN {id} ELSE {},
                            !.pulls = 1]
    /\ UNCHANGED <<users, store, agent_cache, created, response, reqs, weather>>

\* PromptCache.update_all_prompts(): update_prompt for every key of the cache
UpdateAllPrompts == \E pulled \in [DOMAIN prompts -> HubOutcomes] :
    /\ Started
    /\ prompts' = [id \in DOMAIN prompts |-> update_prompt(prompts, id, pulled[id])[id]]
    /\ ret' = [NoRet EXCEPT !.call = "update_all_prompts",
                            !.results = [id \in DOMAIN prompts |-> pulled[id] # PullRaises],
                            !.failed = {id \in DOMAIN prompts : pulled[id] = PullRaises},
                            !.pulls = Cardinality(DOMAIN prompts)]
    /\ UNCHANGED <<users, store, agent_cache, created, response, reqs, weather>>

\* create_weather_agent: the prompt it fetches for the agent
FetchAgentPrompt ==
    /\ Started
    /\ ret' = [NoRet EXCEPT !.call = "create_weather_agent", !.id = "weather_agent",
                            !.value = AgentPrompt]
    /\ UNCHANGED <<users, store, agent_cache, created, response, reqs, prompts, weather>>

NextCache ==
    \/ Startup \/ NewHandle \/ CacheGetPrompt \/ CacheGetPromptIds \/ GetAllPrompts
    \/ UpdatePrompt \/ UpdateAllPrompts \/ FetchAgentPrompt

SpecCache == InitCache /\ [][NextCache]_vars

(***************************************************************************)
(* The registry next to the prompt cache: one registered user queries,     *)
(* reads and clears the history while the cached prompts are updated.      *)
(***************************************************************************)
InitRebuild ==
    /\ users = {RaceUser}
    /\ store = [u \in Users |-> <<>>]
    /\ agent_cache = [u \in Users |-> NoEntry]
    /\ created = 0
    /\ response = Reply("", "", 0)
    /\ reqs = [s \in 1..MaxInflight |-> NoReq]
    /\ weather = NoCall
    /\ prompts \in [prompt_configs -> {EntryAfterPull(pulled) : pulled \in HubOutcomes}]
    /\ ret = NoRet

RebuildChat == \E fail \in Fails :
    /\ Room(RaceUser, MaxExchanges)
    /\ chat_agent(RaceUser, "hi", fail)
    /\ UNCHANGED <<reqs, prompts, ret, weather>>

RebuildHistory == \E fail \in StoreFails :
    get_chat_history(RaceUser, DefaultLimit, fail) /\ UNCHANGED <<reqs, prompts, ret, weather>>

RebuildClear == \E fail \in StoreFails :
    delete_chat_history(RaceUser, fail) /\ UNCHANGED <<reqs, prompts, ret, weather>>

NextRebuild ==
    RebuildChat \/ RebuildHistory \/ RebuildClear \/ UpdatePrompt \/ UpdateAllPrompts

SpecRebuild == InitRebuild /\ [][NextRebuild]_vars

\* C22: a pair that get_agent stores for a user (there was no entry, after an
\* eviction or at the first request) holds the agent built from the template
\* the prompt cache holds at that moment: the repaired cached template, or the
\* default when the entry is None; so a template stored by update_prompt or
\* update_all_prompts before the rebuild is the one the new agent uses.
C22_RebuildUsesCachedTemplate ==
    [][ \A u \in Users :
          (agent_cache'[u] # NoEntry /\ agent_cache'[u] # agent_cache[u])
            => /\ agent_cache[u] = NoEntry
               /\ prompts' = prompts
               /\ agent_cache'[u].prompt =
                     IF prompts["weather_agent"] = NoneTemplate
                     THEN create_default_weather_prompt
                     ELSE get_prompt("weather_agent")
      ]_vars

C22_Witness ==
    /\ response.op = "chat" /\ response.status = 200
    /\ agent_cache[RaceUser].id = 2
    /\ ret.call = "update_all_prompts" /\ ret.results["weather_agent"]
    /\ prompts["weather_agent"].type = "ChatPromptTemplate"
    /\ agent_cache[RaceUser].prompt = get_prompt("weather_agent")
    /\ agent_cache[RaceUser].prompt # create_default_weather_prompt

(***************************************************************************)
(* openweather_api.py: the OpenWeather client, and the two weather tools   *)
(* of weather_agent.py.  An upstream request ends with status 200 and a    *)
(* JSON body ("200"), with another status ("404"), with an exception of    *)
(* requests.get ("exception"), or with status 200 and a body json() cannot *)
(* read ("badjson").  None and "" both stand for an argument not given.    *)
(***************************************************************************)
UpstreamOutcomes == {"200", "404", "exception", "badjson"}

Cities == {"Paris", "London"}
CountryCodes == {"", "FR", "US"}
StateCodes == {"", "TX"}

\* the places the geocoding service knows, the best known first
Gazetteer ==
    << [name |-> "Paris", state |-> "", country |-> "FR", lat |-> 48, lon |-> 2],
       [name |-> "Paris", state |-> "TX", country |-> "US", lat |-> 33, lon |-> -95],
       [name |-> "London", state |-> "", country |-> "GB", lat |-> 51, lon |-> 0] >>

Coordinates == {<<Gazetteer[i].lat, Gazetteer[i].lon>> : i \in 1..Len(Gazetteer)}

PyNone == [kind |-> "None", items |-> <<>>]
PyList(items) == [kind |-> "list", items |-> items]
PyDict(item) == [kind |-> "dict", items |-> <<item>>]
PyStr(text) == [kind |-> "str", items |-> <<text>>]
PyRaised == [kind |-> "raise", items |-> <<>>]

\* mutant: only the status is tested, an exception leaves the method
TryRequestUncaught(outcome, body, fallback) ==
    IF outcome = "200" THEN body
    ELSE IF outcome = "404" THEN fallback
    ELSE PyRaised

\* try: response = requests.get(...); 200 -> response.json(), else the
\* fallback; except Exception: the fallback
TryRequest(outcome, body, fallback) ==
    IF outcome = "200" THEN body ELSE fallback

\* the "q" parameter get_geolocation sends
GeoQuery(city_name, country_code, state_code) ==
    IF state_code # "" /\ country_code # ""
    THEN <<city_name, state_code, country_code>>
    ELSE <<city_name>>

\* what the geocoding service answers to q with limit=1
GeoLookup(q) ==
    LET Matches(pl) == /\ pl.name = q[1]
                       /\ Len(q) = 3 => (pl.state = q[2] /\ pl.country = q[3])
        found == SelectSeq(Gazetteer, Matches)
    IN IF found = <<>> THEN <<>> ELSE <<found[1]>>

OpenWeather_get_geolocation(city_name, country_code, state_code, outcome) ==
    TryRequest(outcome, PyList(GeoLookup(GeoQuery(city_name, country_code, state_code))),
               PyList(<<>>))

OpenWeather_get_current_weather(lat, lon, outcome) ==
    TryRequest(outcome, PyDict([lat |-> lat, lon |-> lon, what |-> "current"]), PyNone)

OpenWeather_get_forecast(lat, lon, outcome) ==
    TryRequest(outcome, PyDict([lat |-> lat, lon |-> lon, what |-> "forecast"]), PyNone)

\* alias of get_forecast
OpenWeather_get_weather_forecast(lat, lon, outcome) ==
    OpenWeather_get_forecast(lat, lon, outcome)

GeoRequest(city_name, country_code, state_code) ==
    [url |-> "GEO_URL", q |-> GeoQuery(city_name, country_code, state_code)]

DataRequest(url, lat, lon) == [url |-> url, q |-> <<lat, lon>>]

\* a weather tool: get_geolocation(city, country_code), then the data call
\* for the first place found
WeatherTool(name, url, city, country_code, geo, data) ==
    LET location == OpenWeather_get_geolocation(city, country_code, "", geo)
        place == location.items[1]
        weather_data == IF url = "BASE_URL"
                        THEN OpenWeather_get_current_weather(place.lat, place.lon, data)
                        ELSE OpenWeather_get_forecast(place.lat, place.lon, data)
    IN IF location.items = <<>>
       THEN [NoCall EXCEPT !.call = name, !.city = city, !.country_code = country_code,
                           !.sent = <<GeoRequest(city, country_code, "")>>,
                           !.outcomes = <<geo>>,
                           !.value = PyStr("no location")]
       ELSE [NoCall EXCEPT !.call = name, !.city = city, !.country_code = country_code,
                           !.sent = <<GeoRequest(city, country_code, ""),
                                      DataRequest(url, place.lat, place.lon)>>,
                           !.outcomes = <<geo, data>>,
                           !.value = IF weather_data = PyNone
                                     THEN PyStr("unavailable")
                                     ELSE PyStr("formatted")]

\* the tool get_current_weather(city, country_code)
get_current_weather(city, country_code, geo, data) ==
    WeatherTool("tool get_current_weather", "BASE_URL", city, country_code, geo, data)

\* the tool get_weather_forecast(city, country_code)
get_weather_forecast(city, country_code, geo, data) ==
    WeatherTool("tool get_weather_forecast", "FORECAST_URL", city, country_code, geo, data)

InitWeather ==
    /\ AppInit
    /\ prompts = [id \in WEATHER_PROMPT_IDS |-> NoneTemplate]
    /\ ret = NoRet

GetGeolocation ==
    \E city \in Cities, cc \in CountryCodes, sc \in StateCodes, outcome \in UpstreamOutcomes :
    /\ weather' = [NoCall EXCEPT
                      !.call = "get_geolocation", !.city = city,
                      !.country_code = cc, !.state_code = sc,
                      !.sent = <<GeoRequest(city, cc, sc)>>, !.outcomes = <<outcome>>,
                      !.value = OpenWeather_get_geolocation(city, cc, sc, outcome)]
    /\ UNCHANGED <<users, store, agent_cache, created, response, reqs, prompts, ret>>

GetCurrentWeather == \E c \in Coordinates, outcome \in UpstreamOutcomes :
    /\ weather' = [NoCall EXCEPT
                      !.call = "get_current_weather",
                      !.sent = <<DataRequest("BASE_URL", c[1], c[2])>>,
                      !.outcomes = <<outcome>>,
                      !.value = OpenWeather_get_current_weather(c[1], c[2], outcome)]
    /\ UNCHANGED <<users, store, agent_cache, created, response, reqs, prompts, ret>>

GetForecast == \E c \in Coordinates, outcome \in UpstreamOutcomes :
    /\ weather' = [NoCall EXCEPT
                      !.call = "get_forecast",
                      !.sent = <<DataRequest("FORECAST_URL", c[1], c[2])>>,
                      !.outcomes = <<outcome>>,
                      !.value = OpenWeather_get_forecast(c[1], c[2], outcome)]
    /\ UNCHANGED <<users, store, agent_cache, created, response, reqs, prompts, ret>>

GetWeatherForecast == \E c \in Coordinates, outcome \in UpstreamOutcomes :
    /\ weather' = [NoCall EXCEPT
                      !.call = "get_weather_forecast",
                      !.sent = <<DataRequest("FORECAST_URL", c[1], c[2])>>,
                      !.outcomes = <<outcome>>,
                      !.value = OpenWeather_get_weather_forecast(c[1], c[2], outcome)]
    /\ UNCHANGED <<users, store, agent_cache, created, response, reqs, prompts, ret>>

ToolCurrentWeather ==
    \E city \in Cities, cc \in CountryCodes, geo \in UpstreamOutcomes, data \in UpstreamOutcomes :
    /\ weather' = get_current_weather(city, cc, geo, data)
    /\ UNCHANGED <<users, store, agent_cache, created, response, reqs, prompts, ret>>

ToolWeatherForecast ==
    \E city \in Cities, cc \in CountryCodes, geo \in UpstreamOutcomes, data \in UpstreamOutcomes :
    /\ weather' = get_weather_forecast(city, cc, geo, data)
    /\ UNCHANGED <<users, store, agent_cache, created, response, reqs, prompts, ret>>

NextWeather ==
    \/ GetGeolocation \/ GetCurrentWeather \/ GetForecast \/ GetWeatherForecast
    \/ ToolCurrentWeather \/ ToolWeatherForecast

SpecWeather == InitWeather /\ [][NextWeather]_vars

\* C23: get_geolocation, get_current_weather, get_forecast and
\* get_weather_forecast return for every outcome of the upstream request: when
\* the request raises or the status is not 200, geolocation returns the empty
\* list and the weather and forecast calls return None.
C23_ClientNeverRaises ==
    (weather.call \in {"get_geolocation", "get_current_weather",
                       "get_forecast", "get_weather_forecast"})
        => /\ weather.value # PyRaised
           /\ weather.outcomes[1] # "200"
                => weather.value = IF weather.call = "get_geolocation"
                                   THEN PyList(<<>>) ELSE PyNone
           /\ weather.outcomes[1] = "200"
                => weather.value.kind = IF weather.call = "get_geolocation"
                                        THEN "list" ELSE "dict"

C23_Witness ==
    /\ weather.call = "get_forecast"
    /\ weather.outcomes = <<"exception">>
    /\ weather.value = PyNone

\* C27: whenever a country code is passed to get_geolocation, by a caller or
\* by a weather tool, the q parameter of the request sent to the geocoding
\* service holds that country code, with and without a state code.
C27_CountryQualifiesLookup ==
    (weather.call \in {"get_geolocation", "tool get_current_weather",
                       "tool get_weather_forecast"}
       /\ weather.country_code # "")
        => \E i \in 1..Len(weather.sent[1].q) : weather.sent[1].q[i] = weather.country_code

(***************************************************************************)
(* Claims about the templates get_prompt returns.                          *)
(***************************************************************************)
IsHistorySegment(m) ==
    \/ ~HasTemplate(m) /\ m.variable_name = "chat_history"
    \/ HasTemplate(m) /\ "chat_history" \in m.template

IsScratchSegment(m) ==
    \/ ~HasTemplate(m) /\ m.variable_name = "agent_scratchpad"
    \/ HasTemplate(m) /\ "agent_scratchpad" \in m.template

IsInputSegment(m) == HasTemplate(m) /\ "input" \in m.template

HistoryAt(msgs) == {i \in 1..Len(msgs) : IsHistorySegment(msgs[i])}
ScratchAt(msgs) == {i \in 1..Len(msgs) : IsScratchSegment(msgs[i])}
InputAt(msgs) == {i \in 1..Len(msgs) : IsInputSegment(msgs[i])}

\* the segments of b are those of a, in the same order, up to the date substitution
SameSegments(a, b) ==
    /\ Len(a) = Len(b)
    /\ \A i \in 1..Len(a) :
          /\ a[i].cls = b[i].cls
          /\ a[i].variable_name = b[i].variable_name
          /\ a[i].template \ {"TODAY_DATE", TodayDate} = b[i].template \ {"TODAY_DATE", TodayDate}

GotChat == ret.call = "get_prompt" /\ ret.value.type = "ChatPromptTemplate"
CachedChat ==
    /\ ret.call = "get_prompt" /\ ret.id \in DOMAIN prompts
    /\ prompts[ret.id].type = "ChatPromptTemplate"

\* C7: every chat template get_prompt returns holds the history placeholder,
\* the input placeholder and the agent_scratchpad placeholder exactly once
\* each, history before input and agent_scratchpad last.
C7_PlaceholdersComplete ==
    GotChat =>
        LET msgs == ret.value.messages IN
        /\ Cardinality(HistoryAt(msgs)) = 1
        /\ Cardinality(InputAt(msgs)) = 1
        /\ Cardinality(ScratchAt(msgs)) = 1
        /\ \A i \in HistoryAt(msgs), j \in InputAt(msgs) : i < j
        /\ IsScratchSegment(msgs[Len(msgs)])

\* C8: a cached template that holds a history placeholder and an
\* agent_scratchpad placeholder is returned with the same sequence of segments.
C8_CompleteUnchanged ==
    (/\ CachedChat
     /\ HistoryAt(prompts[ret.id].messages) # {}
     /\ ScratchAt(prompts[ret.id].messages) # {})
        => SameSegments(prompts[ret.id].messages, ret.value.messages)

\* C9: a cached template with a user-turn segment and no agent_scratchpad
\* placeholder is returned with exactly one agent_scratchpad placeholder, as the
\* last segment, and exactly one history placeholder, before the user turn.
C9_RepairAddsOneEach ==
    (/\ CachedChat
     /\ FirstHuman(prompts[ret.id].messages) # 0
     /\ ScratchAt(prompts[ret.id].messages) = {})
        => LET msgs == ret.value.messages IN
           /\ ScratchAt(msgs) = {Len(msgs)}
           /\ msgs[Len(msgs)] = MessagesPlaceholder("agent_scratchpad")
           /\ Cardinality(HistoryAt(msgs)) = 1
           /\ \A i \in HistoryAt(msgs) : i < FirstHuman(msgs)

(***************************************************************************)
(* Claims about the conversation store and the registry.                   *)
(***************************************************************************)

\* C1: a history read of a session holding N messages returns exactly
\* min(N, 2K) messages, the most recent ones in their original order; so does
\* the history the agent is given with a query.
C1_WindowBound ==
    /\ (response.op = "history" /\ response.status = 200 /\ response.limit = DefaultLimit)
          => response.body = FormatMessages(LastN(store[response.user], 2 * K))
    /\ (response.op = "chat" /\ response.status = 200)
          => Len(response.context) <= 2 * K

\* C2: a successful query appends exactly two messages to the user's store, the
\* human message with the query text and then the assistant message with the
\* response text; a history read of a store that holds one exchange returns
\* exactly these 2 messages.
C2_ExchangeAppended ==
    [][ /\ (response'.op = "chat" /\ response'.status = 200)
            => /\ store'[response'.user] =
                    store[response'.user] \o <<HumanMessage(response'.query),
                                               AIMessage(response'.body[1])>>
               /\ response'.context = <<>> => Len(store'[response'.user]) = 2
        /\ (response'.op = "history" /\ response'.status = 200
               /\ response'.limit = DefaultLimit /\ Len(store[response'.user]) = 2)
            => /\ Len(response'.body) = 2
               /\ response'.body[1].role = "user"
               /\ response'.body[1].content = store[response'.user][1].content
               /\ response'.body[2].role = "assistant"
               /\ response'.body[2].content = Answer
      ]_vars

C2_Witness ==
    /\ response.op = "history" /\ response.status = 200
    /\ response.limit = DefaultLimit
    /\ Len(store[response.user]) = 2
    /\ Len(response.body) = 2

\* C3: a query or a history read leaves every message stored earlier in place:
\* the store before the step is a prefix of the store after it, also once the
\* store holds more than 2K messages.
C3_AppendOnly ==
    [][ response'.op \in {"chat", "history"}
            => \A u \in Users : IsPrefix(store[u], store'[u]) ]_vars

C3_Witness ==
    /\ response.op = "chat" /\ response.status = 200
    /\ Len(store[response.user]) > 2 * K

\* C5: after a history clear succeeds the user's store is empty and the
\* registry holds no entry for the user; the next request of that user that
\* reaches get_agent builds a new pair.
ClearPost ==
    (response.op = "clear" /\ response.status = 200)
        => /\ store[response.user] = <<>>
           /\ agent_cache[response.user] = NoEntry

C5_ClearEvicts ==
    [][ /\ ClearPost'
        /\ (/\ response.op = "clear" /\ response.status = 200
            /\ response'.user = response.user
            /\ response'.op \in {"chat", "history"}
            /\ response'.mem # 0)
            => /\ created' = created + 1
               /\ response'.mem = created'
               /\ response'.mem # response.mem
      ]_vars

C5_Witness ==
    /\ response.op = "chat" /\ response.status = 200
    /\ response.context = <<>>
    /\ response.mem > 1
    /\ \A u \in Users \ {response.user} : agent_cache[u] = NoEntry /\ u \notin users

C10_BlankRejected ==
    [][ (response'.op = "chat" /\ IsBlank(response'.query) /\ response'.status # 401)
            => /\ response'.status \in {400, 422}
               /\ store' = store
               /\ agent_cache' = agent_cache ]_vars

\* C11: when a query fails (create_weather_agent raises, the model or a tool
\* raises, or the store raises while the agent runs) the caller gets an error
\* and the user's store, and every other user's, is what it was before: neither
\* the human nor the assistant message of the exchange is added.
C11_FailedQueryAppendsNothing ==
    [][ (response'.op = "chat" /\ (response'.raised # "" \/ response'.status = 500))
            => /\ response'.status = 500
               /\ response'.raised \in {"construct", "mongo", "llm"}
               /\ response'.body = <<>>
               /\ store' = store ]_vars

C11_Witness ==
    /\ response.op = "chat" /\ response.status = 500 /\ response.raised = "llm"
    /\ Len(store[response.user]) = 2

\* C12: when create_weather_agent fails inside get_agent the exception reaches
\* the handler that called get_agent (which answers 500, or swallows it in the
\* account deletion), and afterwards the registry holds no entry for that user;
\* the entries of the other users are unchanged.
C12_FailedConstructionNoEntry ==
    [][ response'.raised = "construct"
            => /\ response'.op # "delete" => response'.status = 500
               /\ response'.op = "delete" => response'.swallowed
               /\ agent_cache'[response'.user] = NoEntry
               /\ \A u \in Users \ {response'.user} : agent_cache'[u] = agent_cache[u]
               /\ created' = created ]_vars

C12_Witness ==
    /\ response.op = "chat" /\ response.status = 500 /\ response.raised = "construct"
    /\ agent_cache[response.user] = NoEntry
    /\ \E u \in Users \ {response.user} : agent_cache[u] # NoEntry

\* C13: while the registry holds an entry for a user, every get_agent call for
\* that user returns the pair of that entry and builds nothing; the entry is
\* replaced by no other pair (it stays, or it is evicted): one construction per
\* cache lifetime of a user.
C13_OneConstructionPerLifetime ==
    [][ \A u \in Users :
          agent_cache[u] # NoEntry
            => /\ agent_cache'[u] \in {agent_cache[u], NoEntry}
               /\ (response'.user = u /\ response'.mem # 0)
                     => /\ response'.mem = agent_cache[u].id
                        /\ created' = created ]_vars

C13_Witness ==
    /\ response.op = "history" /\ response.status = 200
    /\ created = 1
    /\ response.mem = agent_cache[response.user].id
    /\ Len(store[response.user]) = 4

\* every exchange of the store is a human message followed at once by the
\* answer to it
PairedStore ==
    \A u \in Users :
        /\ Len(store[u]) % 2 = 0
        /\ \A i \in 1..Len(store[u]) :
              IF i % 2 = 1
              THEN /\ store[u][i].type = "human"
                   /\ store[u][i + 1] = AIMessage(AnswerTo(store[u][i].content))
              ELSE store[u][i].type = "ai"

\* C19: with several queries of one user in the server at once, every query
\* that is answered adds its own human message and, right after it, its own
\* answer to the end of the store; the store is always a sequence of such
\* pairs, and no step but a history clear removes or moves a stored message.
C19_ExchangesStayPaired ==
    [][ /\ PairedStore'
        /\ (\A s \in Slots : ~(Pending(s, "clear") /\ reqs'[s].st = "done"))
              => \A u \in Users : IsPrefix(store[u], store'[u])
        /\ \A s \in Slots :
              (Pending(s, "chat") /\ reqs'[s].st = "done" /\ reqs'[s].status = 200)
                => /\ response'.body = <<AnswerTo(reqs[s].query)>>
                   /\ store'[reqs[s].user] =
                         store[reqs[s].user] \o <<HumanMessage(reqs[s].query),
                                                  AIMessage(response'.body[1])>>
      ]_vars

C19_Witness ==
    /\ reqs[1].st = "done" /\ reqs[2].st = "done"
    /\ reqs[1].op = "chat" /\ reqs[2].op = "chat"
    /\ reqs[1].raced /\ reqs[2].raced
    /\ reqs[1].user = reqs[2].user
    /\ reqs[1].status = 200 /\ reqs[2].status = 200
    /\ reqs[1].query = "hi" /\ reqs[2].query = "yo"
    /\ store[reqs[1].user] = <<HumanMessage("yo"), AIMessage("rainy"),
                                HumanMessage("hi"), AIMessage("sunny")>>

\* C20: a history clear of a registered user during which nothing raises
\* succeeds and leaves the user's store empty, whether or not the store held
\* messages and whether or not the registry held an entry for the user; so of
\* two clears in a row the second succeeds like the first, on an empty store
\* and with no entry, and the store is empty after each.
C20_ClearIdempotent ==
    [][ /\ (response'.op = "clear" /\ response'.raised = "" /\ response'.user \in users)
              => /\ response'.status = 200
                 /\ store'[response'.user] = <<>>
        /\ (/\ response.op = "clear" /\ response.status = 200
            /\ response'.op = "clear" /\ response'.user = response.user
            /\ response'.raised = "")
              => /\ store[response.user] = <<>>
                 /\ agent_cache[response.user] = NoEntry
                 /\ response'.status = 200
                 /\ store'[response.user] = <<>>
      ]_vars

C20_Witness ==
    /\ response.op = "clear" /\ response.status = 200
    /\ response.mem = 2 /\ created = 2
    /\ users = {response.user}
    /\ \A u \in Users : store[u] = <<>> /\ agent_cache[u] = NoEntry

\* C21: once user_manager.delete_user has removed the account, the deletion
\* request answers success, also when get_agent or clear_history raised during
\* the cleanup; what the cleanup had not done by then stays undone.
C21_DeleteBestEffort ==
    [][ /\ (response'.op = "delete" /\ response'.user \in users
                                    /\ response'.user \notin users')
              => response'.status = 200
        /\ (response'.op = "delete" /\ response'.raised # "")
              => /\ response'.status = 200
                 /\ response'.swallowed
                 /\ response'.user \notin users'
                 /\ store' = store
      ]_vars

C21_Witness ==
    /\ response.op = "delete" /\ response.status = 200
    /\ response.raised = "mongo"
    /\ response.user \notin users
    /\ Len(store[response.user]) = 2

\* C24: the chat-history endpoint returns each stored message with the role
\* label of the documented message model, 'human' for a message of the user
\* and 'ai' for a message of the agent, so the chat UI shows the user's
\* messages as the user's and the agent's as the agent's.
C24_DocumentedRoleLabels ==
    (response.op = "history" /\ response.status = 200 /\ response.limit = DefaultLimit)
        => /\ Len(response.body) = Len(store[response.user])
           /\ \A i \in 1..Len(response.body) :
                 /\ response.body[i].role = store[response.user][i].type
                 /\ response.body[i].role \in {"human", "ai"}
                 /\ display_role(response.body[i].role) = "You"
                       <=> store[response.user][i].type = "human"

\* C25: the history returned for a user depends only on the durable store and
\* not on the registry: over any step that leaves the user's stored messages
\* unchanged (a restart of the process, an eviction, the construction of a
\* pair) a history read returns the same messages after the step as before it.
C25_HistoryFromStoreOnly ==
    [][\A u \in Users, limit \in Limits :
          (u \in users /\ u \in users' /\ store'[u] = store[u])
              => HistoryOf(u, limit)' = HistoryOf(u, limit)]_vars

\* a user read a non-empty history, then the process restarted and the
\* registry holds no entry for the user
C25_Witness ==
    /\ response.op = "history" /\ response.status = 200
    /\ response.body # <<>>
    /\ response.user \in users
    /\ store[response.user] # <<>>
    /\ agent_cache[response.user] = NoEntry

\* C28: after an account is deleted and the same username is registered
\* again, the history read for the new account contains no message that was
\* stored before the deletion: the history of an account that has just been
\* registered is empty.
C28_NewAccountStartsEmpty ==
    (response.op = "signup" /\ response.status = 201)
        => HistoryOf(response.user, DefaultLimit) = <<>>

\* C29: a query, history read, history clear or account deletion made for one
\* user leaves every other user's stored messages and every other user's
\* registry entry unchanged, and each registry entry's memory is bound to the
\* user it is keyed by.
C29_OtherUsersUntouched ==
    /\ [](\A u \in Users : InCache(u) => agent_cache[u].user_id = u)
    /\ [][\A u \in Users :
            u # response'.user
                => /\ store'[u] = store[u]
                   /\ agent_cache'[u] = agent_cache[u]]_vars

\* a clear or a deletion for one user has been served while another user has
\* stored messages and a registry entry
C29_Witness ==
    /\ response.op \in {"clear", "delete"} /\ response.status = 200
    /\ ~response.swallowed
    /\ \E u \in Users \ {response.user} : store[u] # <<>> /\ InCache(u)

\* C18: when the store fails while the history is fetched the caller gets an
\* error; a history answered with success carries the stored messages (cut to
\* the limit), so an empty list is answered only for a store that is empty.
C18_FailedFetchIsError ==
    /\ (response.op = "history" /\ response.raised # "")
          => response.status = 500 /\ response.body = <<>>
    /\ (response.op = "history" /\ response.status = 200)
          => /\ response.raised = ""
             /\ response.body =
                    ApplyLimit(FormatMessages(store[response.user]), response.limit)
             /\ response.body = <<>> => store[response.user] = <<>>

C18_Witness ==
    /\ response.op = "history" /\ response.status = 500 /\ response.raised = "mongo"
    /\ Len(store[response.user]) = 2

(***************************************************************************)
(* Claims about the life of the prompt cache.                              *)
(***************************************************************************)

\* C14: when hub.pull raises during update_prompt (alone or as a pass of
\* update_all_prompts) the call reports False for that id and the cached entry
\* of the id is what it was before the call; a failed update_prompt leaves
\* the whole cache as it was, and False is reported only for a failed pull.
C14_FailedUpdateKeepsCache ==
    [][ ret'.call \in {"update_prompt", "update_all_prompts"}
          => /\ \A id \in ret'.failed :
                   /\ ret'.results[id] = FALSE
                   /\ id \in DOMAIN prompts <=> id \in DOMAIN prompts'
                   /\ id \in DOMAIN prompts => prompts'[id] = prompts[id]
             /\ (ret'.call = "update_prompt" /\ ret'.failed # {}) => prompts' = prompts
             /\ \A id \in DOMAIN ret'.results : ~ret'.results[id] => id \in ret'.failed
      ]_vars

C14_Witness ==
    /\ ret.call = "update_prompt" /\ ret.failed = {"weather_agent"}
    /\ ret.results["weather_agent"] = FALSE
    /\ prompts["weather_agent"].type = "ChatPromptTemplate"

\* C15: initialize_cache returns for every outcome of the pulls: each
\* configured id gets an entry, the entry of an id whose pull raised is None,
\* and every entry is None or a chat template; after startup the cache holds
\* the configured ids, with None for those whose last pull failed.
C15_InitializeRecordsNull ==
    /\ \A pulled \in [prompt_configs -> HubOutcomes] :
          LET after == initialize_cache(prompts, pulled) IN
          \A id \in prompt_configs :
             /\ id \in DOMAIN after
             /\ pulled[id] = PullRaises => after[id] = NoneTemplate
             /\ after[id].type \in {"None", "ChatPromptTemplate"}
    /\ ret.call = "startup"
          => /\ ret.ids = DOMAIN prompts
             /\ \A id \in prompt_configs :
                   /\ id \in DOMAIN prompts
                   /\ id \in ret.failed => prompts[id] = NoneTemplate

C15_Witness ==
    /\ ret.call = "startup" /\ ret.failed = {"weather_agent"}
    /\ prompts["weather_agent"] = NoneTemplate

\* history, input and agent_scratchpad once each, history before input,
\* agent_scratchpad last
Complete(msgs) ==
    /\ Cardinality(HistoryAt(msgs)) = 1
    /\ Cardinality(InputAt(msgs)) = 1
    /\ Cardinality(ScratchAt(msgs)) = 1
    /\ \A i \in HistoryAt(msgs), j \in InputAt(msgs) : i < j
    /\ ScratchAt(msgs) = {Len(msgs)}

\* C16: get_prompt of an id that is not in the cache, or whose entry is None,
\* returns None; create_weather_agent then builds the agent with the default
\* template, which holds the history, input and agent_scratchpad placeholders
\* once each, history before input and agent_scratchpad last.
C16_DefaultFallback ==
    /\ (ret.call = "get_prompt"
            /\ (ret.id \notin DOMAIN prompts \/ prompts[ret.id] = NoneTemplate))
          => ret.value = NoneTemplate
    /\ (ret.call = "create_weather_agent" /\ prompts["weather_agent"] = NoneTemplate)
          => /\ ret.value = create_default_weather_prompt
             /\ ret.value.type = "ChatPromptTemplate"
             /\ Complete(ret.value.messages)

C16_Witness ==
    /\ ret.call = "create_weather_agent"
    /\ prompts["weather_agent"] = NoneTemplate
    /\ ret.value.type = "ChatPromptTemplate"
    /\ Len(ret.value.messages) = 4

C26_StartupPullsOnce ==
    ret.call = "startup"
        => /\ ret.pulls = Cardinality(prompt_configs)
           /\ \A id \in prompt_configs :
                 (ret.first[id] # PullRaises /\ ret.first[id].type = "ChatPromptTemplate")
                     => prompts[id] = ret.first[id]
\* C30: after any sequence of initialize, update and update_all calls, every
\* non-null cache entry for a template ID configured as chat-style is a
\* chat-style template: a pulled value of another type is never stored as a
\* non-null entry.
C30_ChatEntriesAreChat ==
    \A id \in DOMAIN prompts \cap prompt_configs :
        prompts[id] # NoneTemplate => prompts[id].type = "ChatPromptTemplate"
====
